---- MODULE Spec2Model ----
(***************************************************************************)
(* Model of fermipy/diffuse/gt_srcmaps_catalog.py:                         *)
(*   SrcmapsCatalog_SG.build_job_configs  - splits every catalog into      *)
(*       chunks of nsrc sources and emits one job per (catalog, component, *)
(*       chunk) into a dict keyed by "<ebin>_<evtype>_<NN>";               *)
(*   GtSrcmapsCatalog.run_analysis        - the worker: for each source    *)
(*       index of [srcmin, srcmax) adds the source, writes its partial     *)
(*       source map to the output file and deletes the source again.       *)
(* Strings are sequences of tokens, so formatting and replace() are        *)
(* computed, not assumed.                                                  *)
(***************************************************************************)
EXTENDS Integers, Sequences, FiniteSets, TLC

VARIABLES
    catalog_files,      \* the catalogs that exist: name -> number of sources
    items_order,        \* the order in which catalog_info_dict.items() iterates
    components,         \* the list of binning components
    args,               \* the options of build_job_configs: library, nsrc, make_xml
    gen,                \* build_job_configs: "idle" | "returned" | "raised"; "cli": no table, a direct run
    error,              \* the exception build_job_configs raised, or "none"
    job_configs,        \* the job table that was returned (key -> descriptor)
    puts,               \* the stores job_configs[full_key] = ... made, in order
    xml_files,          \* the model files written by _make_xml_files
    pc,                 \* per job: where its worker stands
    idx,                \* per job: the loop variable i
    like,               \* per job: the sources held by like.logLike
    trace,              \* per job: the calls made on the engine so far
    files,              \* the file system: path -> contents of the file
    writers             \* path -> the jobs that created or wrote the file

vars == <<catalog_files, items_order, components, args, gen, error,
          job_configs, puts, xml_files, pc, idx, like, trace, files, writers>>

genInputs == <<catalog_files, items_order, components, args>>
workerVars == <<pc, idx, like, trace, files, writers>>
genVars == <<gen, error, job_configs, puts, xml_files>>

----------------------------------------------------------------------------
(* Bounds of the model                                                      *)

\* largest catalog size of the generation-only specification
MaxNSrc == 5
\* largest chunk size (nsrc) of the generation-only specification
MaxChunk == 3
\* smallest (most negative) chunk size is -MinChunkAbs
MinChunkAbs == 2
\* largest catalog size when the generated jobs are also run
RunMaxNSrc == 3
\* largest number of sources in the model file of a single worker run
CliMaxNSrc == 3
\* largest catalog size when the generated jobs are run and calls may raise
FaultyMaxNSrc == 2

CatalogNames == {"3FGL", "2FHL"}

AllComponents ==
    << [ebin_name |-> "E0", evtype_name |-> "PSF3", zmax |-> "100", coordsys |-> "GAL"],
       [ebin_name |-> "E1", evtype_name |-> "PSF3", zmax |-> "90", coordsys |-> "GAL"] >>

----------------------------------------------------------------------------
(* String helpers                                                           *)

DigitStr == <<"0", "1", "2", "3", "4", "5", "6", "7", "8", "9">>

RECURSIVE Dec(_)
\* "%i" % n for n >= 0
Dec(n) == IF n < 10 THEN <<DigitStr[n + 1]>>
          ELSE Dec(n \div 10) \o <<DigitStr[(n % 10) + 1]>>

\* "%02i" % n for n >= 0: at least two digits, zero padded
Fmt02(n) == IF n < 10 THEN <<"0">> \o Dec(n) ELSE Dec(n)

RECURSIVE Replace(_, _, _)
\* str.replace(old, new) for a one-token old: every occurrence is replaced
Replace(s, old, new) ==
    IF s = <<>> THEN <<>>
    ELSE IF Head(s) = old THEN new \o Replace(Tail(s), old, new)
    ELSE <<Head(s)>> \o Replace(Tail(s), old, new)

\* comp.make_key('{ebin_name}_{evtype_name}')
make_key(comp) == <<comp.ebin_name, "_", comp.evtype_name>>

\* "zmax%i" % comp.zmax
zcut(comp) == <<"zmax", comp.zmax>>

\* NAME_FACTORY.<kind>(**name_keys): a path built from the name keys
NameFactoryPath(kind, catalog_name, comp) ==
    <<kind, "/", kind, "_", catalog_name, "_">> \o zcut(comp) \o <<"_">>
        \o make_key(comp) \o <<"_", comp.coordsys, ".fits">>

\* catalog_info.srcmdl_name
srcmdl_name(catalog_name) == <<"srcmdl_", catalog_name, ".xml">>

----------------------------------------------------------------------------
(* build_job_configs                                                        *)

\* math.ceil(float(a)/b) as an int, for b # 0 (b may be negative)
CeilDiv(a, b) == IF b > 0 THEN -((-a) \div b) ELSE -(a \div (-b))

Min(a, b) == IF a < b THEN a ELSE b

\* n_job = int(math.ceil(float(n_cat_src)/n_src_per_job))
NJob(n_cat_src, n_src_per_job) == CeilDiv(n_cat_src, n_src_per_job)

\* range(n_job)
Range(n) == 0 .. (n - 1)

\* full_key = "%s_%02i" % (key, i_job)
FullKey(catalog_name, comp, i_job) == make_key(comp) \o <<"_">> \o Fmt02(i_job)

\* chunks that start one source early, so that neighbours overlap
SrcMin_Overlap(i_job, n_src_per_job) == i_job * (n_src_per_job - 1)

\* srcmin = i_job*n_src_per_job
SrcMin(i_job, n_src_per_job) == i_job * n_src_per_job

\* a chunk end that is not clamped to the catalog size
SrcMax_NoClamp(i_job, n_src_per_job, n_cat_src) ==
    SrcMin(i_job, n_src_per_job) + n_src_per_job

\* srcmax = min(srcmin+n_src_per_job, n_cat_src)
SrcMax(i_job, n_src_per_job, n_cat_src) ==
    Min(SrcMin(i_job, n_src_per_job) + n_src_per_job, n_cat_src)

\* an output path that leaves the job index out
OutFile_NoIndex(catalog_name, comp, i_job) ==
    NameFactoryPath("srcmaps", catalog_name, comp)

\* outfile = NAME_FACTORY.srcmaps(**name_keys).replace('.fits', "_%02i.fits"%(i_job))
OutFile(catalog_name, comp, i_job) ==
    Replace(NameFactoryPath("srcmaps", catalog_name, comp), ".fits",
            <<"_">> \o Fmt02(i_job) \o <<".fits">>)

\* logfile = make_nfs_path(outfile.replace('.fits', '.log'))
LogFile(outfile) == Replace(outfile, ".fits", <<".log">>)

\* the dict stored under job_configs[full_key]
JobConfig(catalog_name, comp, i_job, n_src_per_job, n_cat_src) ==
    [cmap     |-> NameFactoryPath("ccube", catalog_name, comp),
     expcube  |-> NameFactoryPath("ltcube", catalog_name, comp),
     irfs     |-> <<"irfs">>,
     bexpmap  |-> NameFactoryPath("bexpcube", catalog_name, comp),
     outfile  |-> OutFile(catalog_name, comp, i_job),
     logfile  |-> LogFile(OutFile(catalog_name, comp, i_job)),
     srcmdl   |-> srcmdl_name(catalog_name),
     evtype   |-> comp.evtype_name,
     srcmin   |-> SrcMin(i_job, n_src_per_job),
     srcmax   |-> SrcMax(i_job, n_src_per_job, n_cat_src)]

\* d[k] = v on a dict
Put(d, k, v) == [x \in DOMAIN d \cup {k} |-> IF x = k THEN v ELSE d[x]]

RECURSIVE JobLoop(_, _, _, _, _, _)
\* for i_job in range(n_job): ... job_configs[full_key] = dict(...)
\* returns the stores it makes, in order, as <<full_key, dict>> pairs
JobLoop(catalog_name, comp, i_job, n_job, nsrc, n_cat_src) ==
    IF i_job >= n_job THEN <<>>
    ELSE << <<FullKey(catalog_name, comp, i_job),
              JobConfig(catalog_name, comp, i_job, nsrc, n_cat_src)>> >>
         \o JobLoop(catalog_name, comp, i_job + 1, n_job, nsrc, n_cat_src)

RECURSIVE CompLoop(_, _, _, _, _)
\* for comp in components: ...
CompLoop(catalog_name, comps, n_job, nsrc, n_cat_src) ==
    IF comps = <<>> THEN <<>>
    ELSE JobLoop(catalog_name, Head(comps), 0, n_job, nsrc, n_cat_src)
         \o CompLoop(catalog_name, Tail(comps), n_job, nsrc, n_cat_src)

RECURSIVE CatalogLoop(_, _, _, _)
\* for catalog_name, catalog_info in catalog_info_dict.items(): ...
CatalogLoop(order, cats, comps, nsrc) ==
    IF order = <<>> THEN <<>>
    ELSE CompLoop(Head(order), comps, NJob(cats[Head(order)], nsrc), nsrc,
                  cats[Head(order)])
         \o CatalogLoop(Tail(order), cats, comps, nsrc)

RECURSIVE Store(_, _)
\* the dict after the stores of the sequence ps, applied in order to d
Store(d, ps) ==
    IF ps = <<>> THEN d
    ELSE Store(Put(d, Head(ps)[1], Head(ps)[2]), Tail(ps))

\* the files written by _make_xml_files: one for each catalog and one for
\* each entry of comp_info_dict (a catalog's per-component model)
MakeXmlFiles(cats, comps) ==
    {srcmdl_name(c) : c \in DOMAIN cats}
    \cup {<<"srcmdl_", c, "_">> \o make_key(comps[n]) \o <<".xml">> :
             c \in DOMAIN cats, n \in DOMAIN comps}

\* make_catalog_comp_dict(sources=args['library'], ...): the catalogs the
\* library names, each loaded from its file; a name without a file is fatal
\* a loader that skips the catalogs it cannot find
make_catalog_comp_dict_Skipping(library, on_disk) ==
    [raised |-> FALSE,
     catalog_info_dict |-> [c \in library \cap DOMAIN on_disk |-> on_disk[c]]]

make_catalog_comp_dict(library, on_disk) ==
    IF library \ DOMAIN on_disk # {}
    THEN [raised |-> TRUE, catalog_info_dict |-> [c \in {} |-> 0]]
    ELSE [raised |-> FALSE, catalog_info_dict |-> [c \in library |-> on_disk[c]]]

\* catalog_info_dict.items(): the catalogs of the dict in iteration order
Items(order, cats) == SelectSeq(order, LAMBDA c : c \in DOMAIN cats)

\* float(n_cat_src)/n_src_per_job raises ZeroDivisionError for nsrc = 0
DivisionRaises(order, nsrc) == nsrc = 0 /\ order # <<>>

NoJobs == [k \in {} |-> <<>>]

\* the worker state of the jobs of a table
StartWorkers(table) ==
    /\ pc' = [k \in DOMAIN table |-> "ready"]
    /\ idx' = [k \in DOMAIN table |-> 0]
    /\ like' = [k \in DOMAIN table |-> <<>>]
    /\ trace' = [k \in DOMAIN table |-> <<>>]

\* a generator that, asked for the model files, writes them and stops there
Generate_XmlOnly(a, on_disk, items, comps) ==
    LET loaded == make_catalog_comp_dict(a.library, on_disk)
        catalog_info_dict == loaded.catalog_info_dict
        order == Items(items, catalog_info_dict)
        written == IF a.make_xml THEN MakeXmlFiles(catalog_info_dict, comps) ELSE {}
        ps == IF a.make_xml THEN <<>>
              ELSE CatalogLoop(order, catalog_info_dict, comps, a.nsrc)
    IN IF loaded.raised
       THEN [gen |-> "raised", error |-> "MissingCatalog", puts |-> <<>>,
             job_configs |-> NoJobs, xml_files |-> {}]
       ELSE IF DivisionRaises(order, a.nsrc)
       THEN [gen |-> "raised", error |-> "ZeroDivisionError", puts |-> <<>>,
             job_configs |-> NoJobs, xml_files |-> written]
       ELSE [gen |-> "returned", error |-> "none", puts |-> ps,
             job_configs |-> Store(NoJobs, ps), xml_files |-> written]

\* the outcome of build_job_configs(args): how it ends, the exception it
\* raises, the stores it makes, the table it returns, the files it writes
Generate(a, on_disk, items, comps) ==
    LET loaded == make_catalog_comp_dict(a.library, on_disk)
        catalog_info_dict == loaded.catalog_info_dict
        order == Items(items, catalog_info_dict)
        written == IF a.make_xml THEN MakeXmlFiles(catalog_info_dict, comps) ELSE {}
        ps == CatalogLoop(order, catalog_info_dict, comps, a.nsrc)
    IN IF loaded.raised
       THEN [gen |-> "raised", error |-> "MissingCatalog", puts |-> <<>>,
             job_configs |-> NoJobs, xml_files |-> {}]
       ELSE IF DivisionRaises(order, a.nsrc)
       THEN [gen |-> "raised", error |-> "ZeroDivisionError", puts |-> <<>>,
             job_configs |-> NoJobs, xml_files |-> written]
       ELSE [gen |-> "returned", error |-> "none", puts |-> ps,
             job_configs |-> Store(NoJobs, ps), xml_files |-> written]

build_job_configs ==
    LET r == Generate(args, catalog_files, items_order, components) IN
    /\ gen = "idle"
    /\ gen' = r.gen
    /\ error' = r.error
    /\ puts' = r.puts
    /\ job_configs' = r.job_configs
    /\ xml_files' = r.xml_files
    /\ IF r.gen = "returned"
       THEN StartWorkers(r.job_configs) /\ UNCHANGED <<files, writers>>
       ELSE UNCHANGED workerVars
    /\ UNCHANGED genInputs

----------------------------------------------------------------------------
(* GtSrcmapsCatalog.run_analysis: the worker of one job                     *)

\* args.<name> of the worker: the value the job gives, else the option's default
Arg(d, name, default) == IF name \in DOMAIN d THEN d[name] ELSE default

\* srcmin=(0, 'Index of first source', int)
DefaultSrcMin == 0
\* srcmax=(-1, 'Index of last source', int)
DefaultSrcMax == -1
\* a worker that compresses unless told not to
DefaultGzip_True == TRUE

\* gzip=(False, 'Compress output file', bool)
DefaultGzip == FALSE

\* srcNames.size(): the number of sources of the model file args.srcmdl
SrcNamesSize(d) ==
    LET c == CHOOSE c \in DOMAIN catalog_files : srcmdl_name(c) = d.srcmdl
    IN catalog_files[c]

\* min_idx = args.srcmin
MinIdx(d) == Arg(d, "srcmin", DefaultSrcMin)

\* srcmax read as the index of the last source handled
MaxIdx_Inclusive(d) ==
    IF Arg(d, "srcmax", DefaultSrcMax) < 0 THEN SrcNamesSize(d)
    ELSE Arg(d, "srcmax", DefaultSrcMax) + 1

\* max_idx = args.srcmax; if max_idx < 0: max_idx = srcNames.size()
MaxIdx(d) ==
    IF Arg(d, "srcmax", DefaultSrcMax) < 0 THEN SrcNamesSize(d)
    ELSE Arg(d, "srcmax", DefaultSrcMax)

\* a loop body that deletes the source before its map is written
Body_DeleteFirst == <<"addSource", "deleteSource", "saveSourceMap_partial">>

\* the calls of the loop body that handle source i, in program order
Body == <<"addSource", "saveSourceMap_partial", "deleteSource">>

\* a loop that stops one index early
LoopPc_SkipLast(d, i) ==
    IF i < MaxIdx(d) - 1
    THEN (IF i = MinIdx(d) THEN "saveSourceMaps" ELSE "addSource")
    ELSE "gzip"

\* for i in xrange(min_idx, max_idx): if i == min_idx: ...
\* where the worker goes when the loop variable becomes i
LoopPc(d, i) ==
    IF i < MaxIdx(d)
    THEN (IF i = MinIdx(d) THEN "saveSourceMaps" ELSE Body[1])
    ELSE "gzip"

\* the worker of job k has finished the call named call of the loop body:
\* on to the next call of the body, or to the next turn of the loop
Advance(k, call) ==
    LET pos == CHOOSE n \in DOMAIN Body : Body[n] = call IN
    IF pos < Len(Body)
    THEN /\ pc' = [pc EXCEPT ![k] = Body[pos + 1]]
         /\ UNCHANGED idx
    ELSE /\ idx' = [idx EXCEPT ![k] = @ + 1]
         /\ pc' = [pc EXCEPT ![k] = LoopPc(job_configs[k], idx[k] + 1)]

\* the source at index i of the model file: srcNames[i]
Source(d, i) == <<d.srcmdl, i>>

Log(k, op, i) == trace' = [trace EXCEPT ![k] = Append(@, <<op, i>>)]

Touch(k, path) ==
    writers' = Put(writers, path,
                   (IF path \in DOMAIN writers THEN writers[path] ELSE {}) \cup {k})

\* an output file as saveSourceMaps creates it: no keywords, no source map
NewFile == [hdr |-> FALSE, hdus |-> <<>>]

\* lines 71-92: parse the arguments, build obs and like on the null model,
\* read the model file, fetch the source names, fix the index range
run_analysis(k) ==
    /\ pc[k] = "ready"
    /\ idx' = [idx EXCEPT ![k] = MinIdx(job_configs[k])]
    /\ pc' = [pc EXCEPT ![k] = LoopPc(job_configs[k], MinIdx(job_configs[k]))]
    /\ like' = [like EXCEPT ![k] = <<>>]
    /\ UNCHANGED <<trace, files, writers>>
    /\ UNCHANGED <<genInputs, genVars>>

\* like.logLike.saveSourceMaps(args.outfile): creates the output file
\* (a file that is already there is kept as it is)
saveSourceMaps(k) ==
    LET d == job_configs[k] IN
    /\ pc[k] = "saveSourceMaps"
    /\ files' = IF d.outfile \in DOMAIN files THEN files
                ELSE Put(files, d.outfile, NewFile)
    /\ Touch(k, d.outfile)
    /\ Log(k, "saveSourceMaps", idx[k])
    /\ pc' = [pc EXCEPT ![k] = "copyKeywords"]
    /\ UNCHANGED <<idx, like>>
    /\ UNCHANGED <<genInputs, genVars>>

\* pyLike.CountsMapBase.copyAndUpdateDssKeywords(args.cmap, args.outfile, ...)
copyAndUpdateDssKeywords(k) ==
    LET d == job_configs[k] IN
    /\ pc[k] = "copyKeywords"
    /\ IF d.outfile \in DOMAIN files
       THEN /\ files' = [files EXCEPT ![d.outfile].hdr = TRUE]
            /\ Touch(k, d.outfile)
            /\ Log(k, "copyKeywords", idx[k])
            /\ pc' = [pc EXCEPT ![k] = Body[1]]
       ELSE /\ pc' = [pc EXCEPT ![k] = "failed"]
            /\ UNCHANGED <<files, writers, trace>>
    /\ UNCHANGED <<idx, like>>
    /\ UNCHANGED <<genInputs, genVars>>

\* srcName = srcNames[i]; source = source_factory.releaseSource(srcName);
\* like.logLike.addSource(source, False)
\* (an index outside the model file raises; srcmin >= 0 in every input)
addSource(k) ==
    LET d == job_configs[k] IN
    /\ pc[k] = "addSource"
    /\ IF idx[k] \in 0..(SrcNamesSize(d) - 1)
       THEN /\ like' = [like EXCEPT ![k] = Append(@, Source(d, idx[k]))]
            /\ Log(k, "add", idx[k])
            /\ Advance(k, "addSource")
       ELSE /\ pc' = [pc EXCEPT ![k] = "failed"]
            /\ UNCHANGED <<idx, like, trace>>
    /\ UNCHANGED <<files, writers>>
    /\ UNCHANGED <<genInputs, genVars>>

\* like.logLike.saveSourceMap_partial(args.outfile, source)
saveSourceMap_partial(k) ==
    LET d == job_configs[k] IN
    /\ pc[k] = "saveSourceMap_partial"
    /\ IF d.outfile \in DOMAIN files
       THEN /\ files' = [files EXCEPT ![d.outfile].hdus =
                                          Append(@, Source(d, idx[k]))]
            /\ Touch(k, d.outfile)
            /\ Log(k, "serialize", idx[k])
            /\ Advance(k, "saveSourceMap_partial")
       ELSE /\ pc' = [pc EXCEPT ![k] = "failed"]
            /\ UNCHANGED <<idx, files, writers, trace>>
    /\ UNCHANGED like
    /\ UNCHANGED <<genInputs, genVars>>

\* a deleteSource that leaves the source in the model
Without_Nothing(s, x) == s

\* s without its elements equal to x
Without(s, x) == SelectSeq(s, LAMBDA y : y # x)

\* like.logLike.deleteSource(srcName), then the next turn of the loop
deleteSource(k) ==
    LET d == job_configs[k] IN
    /\ pc[k] = "deleteSource"
    /\ like' = [like EXCEPT ![k] = Without(@, Source(d, idx[k]))]
    /\ Log(k, "remove", idx[k])
    /\ Advance(k, "deleteSource")
    /\ UNCHANGED <<files, writers>>
    /\ UNCHANGED <<genInputs, genVars>>

\* "gzip -9 <outfile>": replaces the file by <outfile>.gz
GzPath(path) == path \o <<".gz">>

Gzipped(fs, path) ==
    [p \in (DOMAIN fs \ {path}) \cup {GzPath(path)} |->
        IF p = GzPath(path) THEN fs[path] ELSE fs[p]]

\* if args.gzip: os.system("gzip -9 %s" % args.outfile)
\* the command may fail (it does when the file is missing or the .gz
\* exists); its exit status is dropped and run_analysis returns
gzip(k) ==
    LET d == job_configs[k] IN
    /\ pc[k] = "gzip"
    /\ IF Arg(d, "gzip", DefaultGzip)
       THEN \E ok \in BOOLEAN :
               IF ok /\ d.outfile \in DOMAIN files /\ GzPath(d.outfile) \notin DOMAIN files
               THEN /\ files' = Gzipped(files, d.outfile)
                    /\ Touch(k, d.outfile)
                    /\ Log(k, "gzip", 1)
               ELSE /\ Log(k, "gzip", 0)
                    /\ UNCHANGED <<files, writers>>
       ELSE UNCHANGED <<files, writers, trace>>
    /\ pc' = [pc EXCEPT ![k] = "done"]
    /\ UNCHANGED <<idx, like>>
    /\ UNCHANGED <<genInputs, genVars>>

\* the places where the worker calls the engine or the I/O library
EngineCalls == {"ready", "saveSourceMaps", "copyKeywords", "addSource",
                "saveSourceMap_partial", "deleteSource"}

\* a worker that catches the exception and goes on to the end of the run
raise_Swallowed(k) ==
    /\ pc[k] \in {"ready", "saveSourceMaps", "copyKeywords", "addSource",
                  "saveSourceMap_partial", "deleteSource"}
    /\ pc' = [pc EXCEPT ![k] = "gzip"]
    /\ UNCHANGED <<idx, like, trace, files, writers>>
    /\ UNCHANGED <<genInputs, genVars>>

\* a worker that catches the exception and goes on with the first source
raise_SkipInit(k) ==
    /\ pc[k] \in {"ready", "saveSourceMaps", "copyKeywords", "addSource",
                  "saveSourceMap_partial", "deleteSource"}
    /\ pc' = [pc EXCEPT ![k] = "addSource"]
    /\ UNCHANGED <<idx, like, trace, files, writers>>
    /\ UNCHANGED <<genInputs, genVars>>

\* a call of the engine raises: nothing catches it, the worker ends there
raise(k) ==
    /\ pc[k] \in EngineCalls
    /\ pc' = [pc EXCEPT ![k] = "failed"]
    /\ UNCHANGED <<idx, like, trace, files, writers>>
    /\ UNCHANGED <<genInputs, genVars>>

----------------------------------------------------------------------------
(* Initial states                                                           *)

\* the orders in which a dict with key set S can be iterated
Orders(S) == {s \in [1..Cardinality(S) -> S] :
                 \A a, b \in 1..Cardinality(S) : a # b => s[a] # s[b]}

CatalogFiles(maxn) == UNION {[S -> 0..maxn] : S \in SUBSET CatalogNames}

ComponentLists == {SubSeq(AllComponents, 1, n) : n \in 0..Len(AllComponents)}

InitCommon ==
    /\ error = "none"
    /\ job_configs = NoJobs
    /\ puts = <<>>
    /\ xml_files = {}
    /\ pc = NoJobs
    /\ idx = NoJobs
    /\ like = NoJobs
    /\ trace = NoJobs
    /\ files = NoJobs
    /\ writers = NoJobs

\* build_job_configs alone, over wide inputs
InitGen ==
    /\ catalog_files \in CatalogFiles(MaxNSrc)
    /\ args \in [library : SUBSET CatalogNames,
                 nsrc : (-MinChunkAbs)..MaxChunk, make_xml : BOOLEAN]
    /\ items_order \in Orders(args.library)
    /\ components \in ComponentLists
    /\ gen = "idle"
    /\ InitCommon

SpecGen == InitGen /\ [][build_job_configs]_vars

\* build_job_configs, then the batch farm runs the jobs of the table, each
\* in its own process, their steps interleaved in any way; no call of the
\* engine raises (SpecFaulty adds that)
InitRun ==
    /\ catalog_files \in CatalogFiles(RunMaxNSrc)
    /\ args \in [library : {DOMAIN catalog_files},
                 nsrc : (RunMaxNSrc - 1)..RunMaxNSrc, make_xml : {FALSE}]
    /\ items_order \in Orders(args.library)
    /\ components \in ComponentLists
    /\ gen = "idle"
    /\ InitCommon

NextRun ==
    \/ build_job_configs
    \/ \E k \in DOMAIN job_configs : run_analysis(k)
    \/ \E k \in DOMAIN job_configs : saveSourceMaps(k)
    \/ \E k \in DOMAIN job_configs : copyAndUpdateDssKeywords(k)
    \/ \E k \in DOMAIN job_configs : addSource(k)
    \/ \E k \in DOMAIN job_configs : saveSourceMap_partial(k)
    \/ \E k \in DOMAIN job_configs : deleteSource(k)
    \/ \E k \in DOMAIN job_configs : gzip(k)

Spec == InitRun /\ [][NextRun]_vars

\* the same run, where any call of the engine may raise in any job
NextFaulty == NextRun \/ \E k \in DOMAIN job_configs : raise(k)

SpecFaulty == InitRun /\ [][NextFaulty]_vars

\* one catalog, its jobs run side by side, any call of the engine may raise
InitAbort ==
    /\ catalog_files \in [{"3FGL"} -> 0..FaultyMaxNSrc]
    /\ args \in [library : {{"3FGL"}},
                 nsrc : {n \in (FaultyMaxNSrc - 1)..FaultyMaxNSrc : n >= 1},
                 make_xml : {FALSE}]
    /\ items_order = <<"3FGL">>
    /\ components \in ComponentLists
    /\ gen = "idle"
    /\ InitCommon

SpecAbort == InitAbort /\ [][NextFaulty]_vars

\* the command line of one worker run
CliKey == <<"cli">>

CliFiles == [cmap : {<<"ccube.fits">>}, expcube : {<<"ltcube.fits">>},
             irfs : {<<"irfs">>}, bexpmap : {<<"bexpcube.fits">>},
             outfile : {<<"srcmaps", ".fits">>}, srcmdl : {srcmdl_name("3FGL")}]

CliArgs ==
    {[f EXCEPT !.outfile = f.outfile] : f \in CliFiles}
    \cup [cmap : {<<"ccube.fits">>}, expcube : {<<"ltcube.fits">>},
          irfs : {<<"irfs">>}, bexpmap : {<<"bexpcube.fits">>},
          outfile : {<<"srcmaps", ".fits">>}, srcmdl : {srcmdl_name("3FGL")},
          srcmin : 0..(CliMaxNSrc + 1), srcmax : (-1)..(CliMaxNSrc + 1),
          gzip : BOOLEAN]

\* one worker run from the command line, with any index range
InitWorker ==
    /\ catalog_files \in [{"3FGL"} -> 0..CliMaxNSrc]
    /\ args = [library |-> {"3FGL"}, nsrc |-> 500, make_xml |-> FALSE]
    /\ items_order = <<"3FGL">>
    /\ components = <<>>
    /\ gen = "cli"
    /\ error = "none"
    /\ job_configs \in [{CliKey} -> CliArgs]
    /\ puts = <<>>
    /\ xml_files = {}
    /\ pc = [k \in {CliKey} |-> "ready"]
    /\ idx = [k \in {CliKey} |-> 0]
    /\ like = [k \in {CliKey} |-> <<>>]
    /\ trace = [k \in {CliKey} |-> <<>>]
    /\ files = NoJobs
    /\ writers = NoJobs

NextWorker ==
    \/ \E k \in DOMAIN job_configs : run_analysis(k)
    \/ \E k \in DOMAIN job_configs : saveSourceMaps(k)
    \/ \E k \in DOMAIN job_configs : copyAndUpdateDssKeywords(k)
    \/ \E k \in DOMAIN job_configs : addSource(k)
    \/ \E k \in DOMAIN job_configs : saveSourceMap_partial(k)
    \/ \E k \in DOMAIN job_configs : deleteSource(k)
    \/ \E k \in DOMAIN job_configs : gzip(k)
    \/ \E k \in DOMAIN job_configs : raise(k)

SpecWorker == InitWorker /\ [][NextWorker]_vars

----------------------------------------------------------------------------
(* Properties of build_job_configs (checked under SpecGen)                  *)

\* the stores made for catalog c and component comp, in the order made
PutsOf(c, comp) ==
    SelectSeq(puts, LAMBDA p : /\ p[2].srcmdl = srcmdl_name(c)
                               /\ SubSeq(p[1], 1, Len(make_key(comp))) = make_key(comp))

\* ceil(n/s) for s >= 1: the least number of chunks of s that cover n
CeilOf(n, s) == CHOOSE q \in 0..n : q * s >= n /\ \A r \in 0..n : r * s >= n => q <= r

\* the indices of the half-open range of a descriptor
Indices(d) == {x \in 0..(d.srcmax - 1) : x >= d.srcmin}

\* C1: for every catalog size N >= 0 and chunk size nsrc >= 1 the ranges
\* emitted for one catalog and one component are, in job-index order,
\* [i*nsrc, min((i+1)*nsrc, N)); they are pairwise disjoint and ascending,
\* their union is [0, N) and there are ceil(N/nsrc) of them.
C1_RangesPartitionCatalog ==
    (gen = "returned" /\ args.nsrc >= 1) =>
        \A c \in args.library : \A n \in DOMAIN components :
            LET r == PutsOf(c, components[n])
                N == catalog_files[c]
                s == args.nsrc
            IN /\ Len(r) = CeilOf(N, s)
               /\ \A i \in DOMAIN r :
                     /\ r[i][1] = make_key(components[n]) \o <<"_">> \o Fmt02(i - 1)
                     /\ r[i][2].srcmin = (i - 1) * s
                     /\ r[i][2].srcmax = (IF i * s < N THEN i * s ELSE N)
               /\ \A i, j \in DOMAIN r :
                     i < j => /\ r[i][2].srcmax <= r[j][2].srcmin
                              /\ Indices(r[i][2]) \cap Indices(r[j][2]) = {}
               /\ UNION {Indices(r[i][2]) : i \in DOMAIN r} = 0..(N - 1)

\* a catalog of 5 sources cut into chunks of 2: three ranges, the last shorter
C1_Witness ==
    /\ gen = "returned"
    /\ args.nsrc = 2
    /\ "3FGL" \in args.library
    /\ catalog_files["3FGL"] = 5
    /\ components # <<>>
    /\ Len(PutsOf("3FGL", components[1])) = 3
    /\ PutsOf("3FGL", components[1])[3][2].srcmax = 5

RECURSIVE SumJobs(_)
\* the sum over the catalogs of S of ceil(N_catalog/nsrc)
SumJobs(S) ==
    IF S = {} THEN 0
    ELSE LET c == CHOOSE x \in S : TRUE
         IN CeilOf(catalog_files[c], args.nsrc) + SumJobs(S \ {c})

\* C2: the composite key is collision-free: distinct (component, catalog,
\* range index) triples get distinct keys, so the returned table holds one
\* descriptor per triple, |components| * sum of ceil(N/nsrc) in all, and no
\* store overwrites an earlier one.
C2_KeysCollisionFree ==
    (gen = "returned" /\ args.nsrc >= 1) =>
        /\ Cardinality(DOMAIN job_configs) = Len(puts)
        /\ Cardinality(DOMAIN job_configs) = Len(components) * SumJobs(args.library)
        /\ \A a, b \in DOMAIN puts : a # b => puts[a][1] # puts[b][1]

\* C3: no two descriptors of the returned table, and no two descriptors
\* emitted at all, have the same outfile; job indices i # j of one
\* component and catalog get different output paths.
C3_OutfilesDistinct ==
    gen = "returned" =>
        /\ \A a, b \in DOMAIN job_configs :
               a # b => job_configs[a].outfile # job_configs[b].outfile
        /\ \A a, b \in DOMAIN puts :
               a # b => puts[a][2].outfile # puts[b][2].outfile

\* two catalogs and two components, one catalog in more than one chunk
C3_Witness ==
    /\ gen = "returned"
    /\ Cardinality(args.library) = 2
    /\ Len(components) = 2
    /\ Len(PutsOf("3FGL", components[1])) >= 2
    /\ Len(PutsOf("2FHL", components[2])) >= 1

\* C4: with nsrc <= 0 job generation fails (InvalidArgument) for every
\* catalog size, and returns no table.
C4_NonPositiveChunkFails ==
    (gen # "idle" /\ args.nsrc <= 0 /\ args.library # {} /\ components # <<>>) =>
        (gen = "raised" /\ job_configs = NoJobs)

\* C5: when the library names a catalog that is absent from the supplied
\* catalogs, generation fails with MissingCatalog and no table is produced,
\* not even one that leaves out the jobs of the missing catalog.
C5_MissingCatalogAborts ==
    (gen # "idle" /\ args.library \ DOMAIN catalog_files # {}) =>
        /\ gen = "raised"
        /\ error = "MissingCatalog"
        /\ job_configs = NoJobs
        /\ puts = <<>>

\* one catalog is there and yields jobs, the other one is missing
C5_Witness ==
    /\ gen = "raised"
    /\ error = "MissingCatalog"
    /\ args.library = {"3FGL", "2FHL"}
    /\ DOMAIN catalog_files = {"3FGL"}
    /\ catalog_files["3FGL"] >= 1
    /\ args.nsrc >= 1
    /\ components # <<>>

----------------------------------------------------------------------------
(* Properties of one worker run (checked under SpecWorker)                  *)

\* the calls of job k on the engine that handle a source
SourceEvents(k) ==
    SelectSeq(trace[k], LAMBDA e : e[1] \in {"add", "serialize", "remove"})

\* how many events of job k are calls of op
Count(k, op) == Cardinality({n \in DOMAIN trace[k] : trace[k][n][1] = op})

\* the number of indices of the range of job k
RangeSize(k) ==
    IF MaxIdx(job_configs[k]) > MinIdx(job_configs[k])
    THEN MaxIdx(job_configs[k]) - MinIdx(job_configs[k]) ELSE 0

\* C6: a worker run on a range of size 0 (srcmin = srcmax) still creates
\* the output file and copies the header keywords, adds no source and
\* reaches Done.
C6_EmptyRangeInitializes ==
    \A k \in DOMAIN job_configs :
        (pc[k] = "done" /\ MinIdx(job_configs[k]) = MaxIdx(job_configs[k])) =>
            /\ Count(k, "saveSourceMaps") = 1
            /\ Count(k, "copyKeywords") = 1
            /\ Count(k, "add") = 0

StepOps == <<"add", "serialize", "remove">>

\* C7: within one run over [srcmin, srcmax) the calls that handle sources
\* are exactly add(min), serialize(min), remove(min), add(min+1), ... in
\* ascending index order, and a run that ends normally has made all of them.
C7_AddSerializeRemoveInOrder ==
    \A k \in DOMAIN job_configs :
        LET ev == SourceEvents(k) IN
        /\ \A n \in DOMAIN ev :
              ev[n] = <<StepOps[((n - 1) % 3) + 1],
                        MinIdx(job_configs[k]) + ((n - 1) \div 3)>>
        /\ pc[k] = "done" => Len(ev) = 3 * RangeSize(k)

\* a run over three sources has ended, after nine calls
C7_Witness ==
    \E k \in DOMAIN job_configs :
        /\ pc[k] = "done"
        /\ RangeSize(k) = 3
        /\ Len(SourceEvents(k)) = 9
        /\ SourceEvents(k)[9] = <<"remove", MinIdx(job_configs[k]) + 2>>

\* C8: in every worker run the output file is created and its keywords are
\* copied exactly once, before the first source is added or serialized, and
\* never again after a source map was written.
C8_InitExactlyOnce ==
    \A k \in DOMAIN job_configs :
        /\ \A n \in DOMAIN trace[k] :
              trace[k][n][1] \in {"add", "serialize"} =>
                  /\ \E m \in 1..(n - 1) : trace[k][m][1] = "saveSourceMaps"
                  /\ \E m \in 1..(n - 1) : trace[k][m][1] = "copyKeywords"
        /\ \A n, m \in DOMAIN trace[k] :
              (trace[k][n][1] = "serialize" /\ n < m) =>
                  trace[k][m][1] \notin {"saveSourceMaps", "copyKeywords"}
        /\ Count(k, "saveSourceMaps") <= 1
        /\ Count(k, "copyKeywords") <= 1
        /\ pc[k] = "done" => /\ Count(k, "saveSourceMaps") = 1
                             /\ Count(k, "copyKeywords") = 1

----------------------------------------------------------------------------
(* Properties of a whole run: the table and its workers (checked under Spec) *)

AllDone == gen = "returned" /\ \A k \in DOMAIN job_configs : pc[k] = "done"

\* the jobs of the table that run on the model file of catalog c
JobsOfCatalog(c) == {k \in DOMAIN job_configs : job_configs[k].srcmdl = srcmdl_name(c)}

\* the jobs of the table of component comp
JobsOfComp(comp) ==
    {k \in DOMAIN job_configs : SubSeq(k, 1, Len(make_key(comp))) = make_key(comp)}

\* how often the jobs of J added source i of catalog c to their context
Adds(J, c, i) ==
    Cardinality({<<k, n>> \in UNION {{k} \X DOMAIN trace[k] : k \in J} :
                    /\ k \in JobsOfCatalog(c)
                    /\ trace[k][n] = <<"add", i>>})

\* how many source maps of source i of catalog c the files of P hold
Maps(P, c, i) ==
    Cardinality({<<p, n>> \in UNION {{p} \X DOMAIN files[p].hdus : p \in P \cap DOMAIN files} :
                    files[p].hdus[n] = <<srcmdl_name(c), i>>})

OutFiles(J) == {job_configs[k].outfile : k \in J}

RangeSources(d) ==
    [n \in 1..(IF MaxIdx(d) > MinIdx(d) THEN MaxIdx(d) - MinIdx(d) ELSE 0) |->
        <<d.srcmdl, MinIdx(d) + n - 1>>]

\* the file system after the worker of descriptor d ran alone, start to end
RunAlone(fs, d) ==
    IF RangeSources(d) = <<>> THEN fs
    ELSE IF d.outfile \in DOMAIN fs
    THEN [fs EXCEPT ![d.outfile] = [hdr |-> TRUE, hdus |-> @.hdus \o RangeSources(d)]]
    ELSE Put(fs, d.outfile, [hdr |-> TRUE, hdus |-> RangeSources(d)])

RECURSIVE RunInOrder(_, _)
\* the file system after the jobs of the sequence ks ran one after another
RunInOrder(fs, ks) ==
    IF ks = <<>> THEN fs
    ELSE RunInOrder(RunAlone(fs, job_configs[Head(ks)]), Tail(ks))

\* C10: however the steps of the workers of one table interleave, no output
\* file is created or written by more than one job, and when all jobs are
\* done every file holds what it holds after the jobs ran one after
\* another, in any order.
C10_InterleavingIsSerial ==
    /\ \A p \in DOMAIN writers : Cardinality(writers[p]) <= 1
    /\ AllDone => \A ks \in Orders(DOMAIN job_configs) : files = RunInOrder(NoJobs, ks)

\* the four jobs of two components are done, each file written by one job
C10_Witness ==
    /\ AllDone
    /\ Cardinality(DOMAIN job_configs) = 4
    /\ Cardinality(DOMAIN files) = 4
    /\ \A k \in DOMAIN job_configs :
          /\ Count(k, "serialize") >= 1
          /\ writers[job_configs[k].outfile] = {k}

----------------------------------------------------------------------------
(* Failures of the worker (checked under SpecAbort and SpecWorker)          *)

Last(s) == s[Len(s)]

\* the worker of job k died in addSource or saveSourceMap_partial; the
\* source it was handling is idx[k]
FailedAtSource(k) ==
    /\ pc[k] = "failed"
    /\ trace[k] # <<>>
    /\ Last(trace[k])[1] \in {"copyKeywords", "remove", "add"}

\* the sources of catalog file m with indices lo .. hi-1, in order
SourcesOf(m, lo, hi) == [n \in 1..(IF hi > lo THEN hi - lo ELSE 0) |-> <<m, lo + n - 1>>]

\* the state of job k that other jobs cannot see or change
Own(k) == <<pc[k], idx[k], like[k], trace[k]>>

\* C11: when adding or serializing fails for the source at index f, the job
\* ends there with a failure status: no source above f is added or written,
\* the failed call is not made again, the output file stays on disk with
\* exactly the maps of [srcmin, f), uncompressed, and the other jobs go on
\* unaffected (each job that ends normally has made all its calls and its
\* file holds its whole range).
C11_FailureAbortsJobOnly ==
    /\ [](\A k \in DOMAIN job_configs :
            LET d == job_configs[k] IN
            /\ FailedAtSource(k) =>
                  /\ \A n \in DOMAIN trace[k] :
                        /\ trace[k][n][1] \in {"add", "serialize"} => trace[k][n][2] <= idx[k]
                        /\ trace[k][n] # <<"serialize", idx[k]>>
                  /\ Cardinality({n \in DOMAIN trace[k] : trace[k][n] = <<"add", idx[k]>>}) <= 1
                  /\ d.outfile \in DOMAIN files
                  /\ files[d.outfile] = [hdr |-> TRUE,
                                         hdus |-> SourcesOf(d.srcmdl, d.srcmin, idx[k])]
                  /\ GzPath(d.outfile) \notin DOMAIN files
            /\ pc[k] = "done" =>
                  /\ Len(SourceEvents(k)) = 3 * (d.srcmax - d.srcmin)
                  /\ files[d.outfile] = [hdr |-> TRUE,
                                         hdus |-> SourcesOf(d.srcmdl, d.srcmin, d.srcmax)])
    /\ [][\A k \in DOMAIN job_configs :
            /\ pc[k] = "failed" =>
                  /\ k \in DOMAIN job_configs'
                  /\ Own(k)' = Own(k)
                  /\ job_configs[k].outfile \in DOMAIN files =>
                        /\ job_configs[k].outfile \in DOMAIN files'
                        /\ files'[job_configs[k].outfile] = files[job_configs[k].outfile]
            /\ \A j \in DOMAIN job_configs :
                  (j # k /\ pc'[k] = "failed" /\ pc[k] # "failed") => Own(j)' = Own(j)]_vars

\* of two jobs of one component the first died while writing its second
\* source, the other one ended normally
C11_Witness ==
    \E k, j \in DOMAIN job_configs :
        /\ k # j
        /\ FailedAtSource(k)
        /\ Last(trace[k])[1] = "add"
        /\ idx[k] > job_configs[k].srcmin
        /\ pc[j] = "done"
        /\ Count(j, "serialize") >= 1

----------------------------------------------------------------------------
(* Compression of the output file (checked under SpecWorker)                *)

\* the job asks for compression: --gzip is on its command line
GzipRequested(d) == "gzip" \in DOMAIN d /\ d.gzip

\* C12: the gzip command is run at most once, only for a job whose gzip
\* flag is set, only after every source of the range was added, written and
\* removed, and it is the last call of the run: no add, serialize or remove
\* follows it. A job whose flag is unset never runs it.
C12_GzipIsTerminal ==
    \A k \in DOMAIN job_configs :
        LET d == job_configs[k] IN
        /\ Count(k, "gzip") <= 1
        /\ ~GzipRequested(d) => Count(k, "gzip") = 0
        /\ \A n \in DOMAIN trace[k] :
              trace[k][n][1] = "gzip" =>
                  /\ n = Len(trace[k])
                  /\ GzipRequested(d)
                  /\ Len(SourceEvents(k)) = 3 * RangeSize(k)
                  /\ RangeSize(k) > 0 =>
                        Last(SourceEvents(k)) = <<"remove", MaxIdx(d) - 1>>

\* a run over two or more sources has ended with a successful compression
C12_Witness ==
    \E k \in DOMAIN job_configs :
        /\ pc[k] = "done"
        /\ RangeSize(k) >= 2
        /\ Last(trace[k]) = <<"gzip", 1>>
        /\ trace[k][Len(trace[k]) - 1] = <<"remove", MaxIdx(job_configs[k]) - 1>>

\* C13: when the gzip command fails the failure is reported, that is the
\* run does not end like a run whose compression succeeded, and the file
\* written before is still there, unchanged.
C13_GzipFailureReported ==
    \A k \in DOMAIN job_configs :
        LET d == job_configs[k] IN
        (RangeSize(k) >= 1 /\ trace[k] # <<>> /\ Last(trace[k]) = <<"gzip", 0>>) =>
            /\ pc[k] # "done"
            /\ d.outfile \in DOMAIN files
            /\ files[d.outfile] = [hdr |-> TRUE,
                                   hdus |-> SourcesOf(d.srcmdl, MinIdx(d), MaxIdx(d))]

----------------------------------------------------------------------------
(* The index range of a worker run (checked under SpecWorker)               *)

\* srcmax was not given, or given as a negative number like its default
SrcMaxUnset(d) == "srcmax" \notin DOMAIN d \/ d.srcmax < 0

\* the first index asked for
FirstAsked(d) == IF "srcmin" \in DOMAIN d THEN d.srcmin ELSE 0

\* the indices of the events of job k that are calls of op
IndicesOf(k, op) == {trace[k][n][2] : n \in {n \in DOMAIN trace[k] : trace[k][n][1] = op}}

----------------------------------------------------------------------------
(* Options of the generator (checked under SpecGen)                         *)

\* C15: make_xml does not change the jobs: on the same catalogs, components
\* and nsrc, build_job_configs with make_xml flipped ends the same way and
\* gives the same table, key by key and descriptor by descriptor, built by
\* the same stores.
C15_MakeXmlKeepsJobs ==
    gen # "idle" =>
        LET other == Generate([args EXCEPT !.make_xml = ~@],
                              catalog_files, items_order, components)
        IN /\ other.gen = gen
           /\ other.error = error
           /\ other.puts = puts
           /\ other.job_configs = job_configs

\* a generation with make_xml set wrote model files and returned jobs
C15_Witness ==
    /\ gen = "returned"
    /\ args.make_xml
    /\ xml_files # {}
    /\ job_configs # NoJobs
    /\ Len(puts) >= 2

\* the fields the dispatcher is said to get with every job
DescriptorFields == {"cmap", "expcube", "bexpmap", "srcmdl", "outfile",
                     "logfile", "srcmin", "srcmax", "gzip"}

\* C16: every descriptor of the table carries the input file paths, the
\* output file path, the log path, srcmin and srcmax, and the boolean gzip
\* flag of the run.
C16_DescriptorCarriesGzip ==
    (gen = "returned" /\ job_configs # NoJobs) =>
        \A k \in DOMAIN job_configs :
            /\ DescriptorFields \subseteq DOMAIN job_configs[k]
            /\ job_configs[k].gzip \in BOOLEAN

----------------------------------------------------------------------------
(* Initialization failures and the context (checked under SpecWorker)       *)

\* the worker of job k died before the keywords of its output file were
\* copied: in saveSourceMaps, in copyAndUpdateDssKeywords, or before them
InitFailed(k) == pc[k] = "failed" /\ Count(k, "copyKeywords") = 0

\* C17: a failure while the output file is created or its keywords are
\* copied ends the job before any source is handled: from these two calls a
\* worker goes on to the next call or fails, a job that failed there has
\* added no source and written no map, and a failed job stays failed and
\* makes no further call.
C17_InitFailureIsFatal ==
    /\ [](\A k \in DOMAIN job_configs :
            InitFailed(k) =>
                /\ Count(k, "add") = 0
                /\ Count(k, "serialize") = 0
                /\ like[k] = <<>>
                /\ job_configs[k].outfile \in DOMAIN files =>
                       files[job_configs[k].outfile].hdus = <<>>)
    /\ [][\A k \in DOMAIN job_configs :
            /\ pc[k] = "saveSourceMaps" =>
                  pc'[k] \in {"saveSourceMaps", "copyKeywords", "failed"}
            /\ (pc[k] = "saveSourceMaps" /\ pc'[k] = "failed") => InitFailed(k)'
            /\ pc[k] = "copyKeywords" =>
                  pc'[k] \in {"copyKeywords", "addSource", "failed"}
            /\ (pc[k] = "copyKeywords" /\ pc'[k] = "failed") => InitFailed(k)'
            /\ InitFailed(k) => (InitFailed(k)' /\ trace'[k] = trace[k])]_vars

\* the output file of a run over two or more sources was created, then the
\* copy of the keywords failed
C17_Witness ==
    \E k \in DOMAIN job_configs :
        /\ InitFailed(k)
        /\ RangeSize(k) >= 2
        /\ trace[k] = <<<<"saveSourceMaps", MinIdx(job_configs[k])>>>>
        /\ job_configs[k].outfile \in DOMAIN files

\* C18: the model of a worker holds at most one catalog source on top of
\* the null model at any time, none when the next source is about to be
\* added and none when the run has ended: no source the worker added is
\* left in the model.
C18_AtMostOneSourceInContext ==
    \A k \in DOMAIN job_configs :
        /\ Len(like[k]) <= 1
        /\ pc[k] \in {"ready", "saveSourceMaps", "copyKeywords", "addSource",
                      "gzip", "done"} => like[k] = <<>>
        /\ pc[k] \in {"saveSourceMap_partial", "deleteSource"} =>
              like[k] = <<Source(job_configs[k], idx[k])>>

\* a run over two or more sources has ended, every source removed again
C18_Witness ==
    \E k \in DOMAIN job_configs :
        /\ pc[k] = "done"
        /\ Count(k, "add") >= 2
        /\ Count(k, "remove") = Count(k, "add")
        /\ like[k] = <<>>

----------------------------------------------------------------------------
(* Generated descriptors and their workers (checked under Spec)             *)

\* descriptor d asks for a non-empty range inside its model file
InBounds(d) == 0 <= d.srcmin /\ d.srcmin < d.srcmax /\ d.srcmax <= SrcNamesSize(d)

\* C19: for nsrc >= 1 every descriptor that build_job_configs stores has
\* 0 <= srcmin < srcmax <= N for its catalog (for the nsrc of the run and,
\* computed as the workers start, for every other nsrc >= 1 on the same
\* catalogs), so its worker always creates the output file and copies the
\* keywords, never asks for a source outside 0 .. N-1 and never fails on
\* its own.
C19_GeneratedRangesInBounds ==
    (gen = "returned" /\ args.nsrc >= 1) =>
        /\ \A n \in DOMAIN puts : InBounds(puts[n][2])
        /\ (\A k \in DOMAIN job_configs : pc[k] = "ready") =>
              \A nsrc \in 1..RunMaxNSrc :
                  LET stores == Generate([args EXCEPT !.nsrc = nsrc], catalog_files,
                                         items_order, components).puts
                  IN \A n \in DOMAIN stores : InBounds(stores[n][2])
        /\ \A k \in DOMAIN job_configs :
              /\ InBounds(job_configs[k])
              /\ pc[k] # "failed"
              /\ pc[k] = "addSource" => idx[k] \in 0..(SrcNamesSize(job_configs[k]) - 1)
              /\ IndicesOf(k, "add") \subseteq 0..(SrcNamesSize(job_configs[k]) - 1)
              /\ pc[k] \in {"addSource", "saveSourceMap_partial", "deleteSource",
                            "gzip", "done"} =>
                    /\ Count(k, "saveSourceMaps") = 1
                    /\ Count(k, "copyKeywords") = 1

\* the job of the last, shorter chunk of a catalog has ended
C19_Witness ==
    /\ gen = "returned"
    /\ \E k \in DOMAIN job_configs :
          LET d == job_configs[k] IN
          /\ pc[k] = "done"
          /\ d.srcmin > 0
          /\ d.srcmax = SrcNamesSize(d)
          /\ d.srcmax - d.srcmin < args.nsrc
          /\ Count(k, "saveSourceMaps") = 1

----------------------------------------------------------------------------
(* The content of the output file (checked under SpecWorker)                *)

\* one past the last index asked for, in a model file of n sources
EndAsked(d, n) == IF SrcMaxUnset(d) THEN n ELSE d.srcmax

\* C20: when a run over a non-empty range [srcmin, srcmax) with srcmax <= N
\* ends without error, its output file (compressed or not) has its keywords
\* and holds exactly one map for each index of the range, in ascending
\* index order, none twice and none for an index outside the range.
C20_FileHoldsRange ==
    \A k \in DOMAIN job_configs :
        LET d == job_configs[k]
            lo == FirstAsked(d)
            hi == EndAsked(d, SrcNamesSize(d))
            out == IF GzPath(d.outfile) \in DOMAIN files
                   THEN GzPath(d.outfile) ELSE d.outfile
        IN (pc[k] = "done" /\ lo < hi /\ hi <= SrcNamesSize(d)) =>
              /\ out \in DOMAIN files
              /\ files[out].hdr
              /\ Len(files[out].hdus) = hi - lo
              /\ \A n \in 1..(hi - lo) : files[out].hdus[n] = <<d.srcmdl, lo + n - 1>>

\* a run over indices 1 and 2 of a larger file has ended and its file of
\* two maps was compressed
C20_Witness ==
    \E k \in DOMAIN job_configs :
        LET d == job_configs[k] IN
        /\ pc[k] = "done"
        /\ "srcmax" \in DOMAIN d /\ d.srcmin = 1 /\ d.srcmax = 3
        /\ GzPath(d.outfile) \in DOMAIN files
        /\ files[GzPath(d.outfile)].hdus = <<<<d.srcmdl, 1>>, <<d.srcmdl, 2>>>>

====
